---- MODULE Spec2Model ----
(***************************************************************************)
(* State machine of the resume editor page (the App component): the five   *)
(* useState cells, the upload and save requests in flight, and the objects *)
(* of the parsed document that the entry handlers write to.                *)
(*                                                                         *)
(* Value conventions.                                                      *)
(*   - A JavaScript string is a sequence of atoms (characters or longer    *)
(*     chunks that hold no separator); "" is << >>; + is \o.               *)
(*   - null / undefined / an absent key is None == << >>; a present value  *)
(*     x is Some(x) == <<x>>.                                              *)
(*   - A document object is a function from its keys to values.  The       *)
(*     document object and its arrays are only ever built fresh and        *)
(*     replaced, so they are values; the entries of education, experience  *)
(*     and projects are assigned to in place (updated[i].degree = ...), so *)
(*     they live in `heap` and the lists hold their addresses.             *)
(***************************************************************************)
EXTENDS Integers, Sequences, FiniteSets, TLC

VARIABLES
    file,        \* useState<File | null>
    parsedData,  \* useState<ResumeData | null>: None or Some(document of addresses)
    pdfUrl,      \* useState<string | null>
    loading,     \* useState(false)
    error,       \* useState<string | null>
    heap,        \* the entry objects, by address (1..Len(heap))
    pending,     \* fetch calls awaiting their response, in the order issued
    nSteps,      \* edits made and requests sent so far (bounded by MaxSteps)
    last         \* the handler that ran last and its input

vars == <<file, parsedData, pdfUrl, loading, error, heap, pending,
          nSteps, last>>

\* ---------------------------------------------------------------- bounds
MaxSteps == 4
\* The longest text typed into an input when the texts are enumerated.
MaxTextLen == 2

\* ---------------------------------------------------------------- values
None == << >>
Some(x) == <<x>>

\* JavaScript truthiness of an optional string: present and not "".
TruthyStr(o) == o # None /\ o[1] # << >>

NL == "\n"
COMMA == ","

ListFields == {"education", "experience", "projects"}

\* updated.splice(i, 1) on the copied list, i counted from 0 as in the
\* source: the element at i is dropped, an index at or past the end drops
\* nothing.
SpliceToEnd(s, i) ==
    IF i >= 0 /\ i < Len(s) THEN SubSeq(s, 1, i) ELSE s

SpliceOne(s, i) ==
    IF i >= 0 /\ i < Len(s)
    THEN [j \in 1..(Len(s) - 1) |-> IF j <= i THEN s[j] ELSE s[j + 1]]
    ELSE s

\* The requests still awaiting an answer once the k-th has been answered.
Settle(reqs, k) ==
    [j \in 1..(Len(reqs) - 1) |-> IF j < k THEN reqs[j] ELSE reqs[j + 1]]

\* (mutant) a split at the first occurrence of sep only.
SplitFirst(str, sep) ==
    IF \E k \in 1..Len(str) : str[k] = sep
    THEN LET k == CHOOSE k \in 1..Len(str) :
                      str[k] = sep /\ \A m \in 1..(k - 1) : str[m] # sep
         IN <<SubSeq(str, 1, k - 1), SubSeq(str, k + 1, Len(str))>>
    ELSE <<str>>

\* String.prototype.split(sep) on a string of atoms: the pieces between
\* the occurrences of sep; always at least one piece.
RECURSIVE Split(_, _)
Split(str, sep) ==
    IF \E k \in 1..Len(str) : str[k] = sep
    THEN LET k == CHOOSE k \in 1..Len(str) :
                      str[k] = sep /\ \A m \in 1..(k - 1) : str[m] # sep
         IN <<SubSeq(str, 1, k - 1)>> \o Split(SubSeq(str, k + 1, Len(str)), sep)
    ELSE <<str>>

\* Array.prototype.join(sep) on a list of strings; sep is a string
\* (", " is the two atoms COMMA and " ").
RECURSIVE Join(_, _)
Join(list, sep) ==
    IF Len(list) = 0 THEN << >>
    ELSE IF Len(list) = 1 THEN list[1]
    ELSE list[1] \o sep \o Join(Tail(list), sep)

\* data.pdf_url + "?t=" + new Date().getTime()
CacheBust(url, t) == url \o <<"?t=", ToString(t)>>

\* obj.key = value on an object (adds the key when it is missing), and the
\* spread { ...prev, [field]: value }.
Assign(obj, key, value) ==
    [k \in (DOMAIN obj) \cup {key} |-> IF k = key THEN value ELSE obj[k]]

\* The value a document of addresses denotes under heap h.
DerefDoc(d, h) ==
    [k \in DOMAIN d |->
        IF k \in ListFields THEN [j \in 1..Len(d[k]) |-> h[d[k][j]]] ELSE d[k]]

\* ------------------------------------------------------------ input sets
\* Texts the user types.
Texts == { <<"c", NL, "d">> }
\* Values new Date().getTime() returns.
Times == 0..1
BulkTexts == { <<"Go", COMMA, " Rust", COMMA, "C++">> }

\* Every text of at most n characters the user can type.
Chars == {"a", COMMA, " "}
TextsUpTo(n) == UNION { [1..k -> Chars] : k \in 0..n }
TypedTexts == TextsUpTo(MaxTextLen)

\* Documents the backend returns in `parsed`.
Edu(d) == [degree |-> <<d>>, institution |-> <<"MIT">>, start_year |-> <<"2001">>,
           end_year |-> <<"2005">>, description |-> <<"thesis">>]
Exp(c) == [company |-> <<c>>, title |-> <<"dev">>, start_year |-> <<"2006">>,
           end_year |-> <<"2009">>, description |-> << <<"built x">>, <<"ran y">> >>]
Proj(p) == [project_name |-> <<p>>, start_year |-> <<"2010">>,
            end_year |-> <<"2011">>, description |-> << <<"wrote z">> >>]

ParsedDocs ==
    { [full_name |-> <<"Jane Doe">>, education |-> << >>],
      [full_name |-> <<"Joe">>,
       education |-> <<Edu("BSc")>>,
       experience |-> <<Exp("Acme")>>,
       projects |-> <<Proj("p1"), Proj("p2")>>,
       technical_skills |-> << <<"Go">>, <<"Rust">> >>,
       hobbies |-> << <<"chess">> >>] }

Urls == { <<"http://x/r1.pdf">> }

\* What the backend (or the network) answers to a fetch.
Reject == [t |-> "reject",
           err |-> [isError |-> TRUE, message |-> <<"Failed to fetch">>]]
Http(ok, statusText, json) ==
    [t |-> "response", ok |-> ok, statusText |-> statusText, json |-> json]

UploadAnswers ==
    {Reject,
     Http(FALSE, <<"Internal Server Error">>,
          Some([parsed |-> Some([full_name |-> <<"Eve">>]),
                pdf_url |-> Some(<<"http://x/r9.pdf">>)])),
     Http(TRUE, <<"OK">>, None),
     Http(TRUE, <<"OK">>, Some([parsed |-> None, pdf_url |-> Some(<<"http://x/r0.pdf">>)]))}
    \cup { Http(TRUE, <<"OK">>, Some([parsed |-> Some(P), pdf_url |-> Some(U)])) :
             P \in ParsedDocs, U \in Urls }

SaveAnswers ==
    {Reject}
    \cup { Http(ok, IF ok THEN <<"OK">> ELSE <<"Internal Server Error">>, j) :
             ok \in BOOLEAN,
             j \in {None, Some([pdf_url |-> None])}
                   \cup { Some([pdf_url |-> Some(U)]) : U \in Urls } }

\* The error res.json() throws on a body that is not JSON.
SyntaxError == [isError |-> TRUE, message |-> <<"Unexpected token < in JSON">>]

Init ==
    /\ file = None
    /\ parsedData = None
    /\ pdfUrl = None
    /\ loading = FALSE
    /\ error = None
    /\ heap = << >>
    /\ pending = << >>
    /\ nSteps = 0
    /\ last = [op |-> "init"]

\* ------------------------------------------------------------- handlers
\* The input sets of the form: which fields the user edits.
TextFields == {"full_name", "summary"}
BulkFields == {"technical_skills"}
EducationSubfields == {"degree", "institution", "start_year", "end_year", "description"}
ExperienceSubfields == {"company", "title", "start_year", "end_year", "description"}
ProjectSubfields == {"project_name", "start_year", "end_year", "description"}

\* handleFileChange: setFile(files[0]) when the input holds a file; picking
\* nothing (an emptied input) changes nothing.
handleFileChange ==
    \E picked \in {None, Some("cv.pdf")} :
        /\ file' = IF picked # None THEN picked ELSE file
        /\ last' = [op |-> "handleFileChange", picked |-> picked]
        /\ UNCHANGED <<parsedData, pdfUrl, loading, error, heap, pending,
                       nSteps>>

\* ---- upload
\* JSON.parse of the response: every object of `parsed` is a fresh one.  The
\* entries of the three lists are put on the heap, after those already there.
ListOf(P, f) == IF f \in DOMAIN P THEN P[f] ELSE << >>
InternHeap(P, h) ==
    h \o ListOf(P, "education") \o ListOf(P, "experience") \o ListOf(P, "projects")
InternBase(P, h, f) ==
    CASE f = "education" -> Len(h)
      [] f = "experience" -> Len(h) + Len(ListOf(P, "education"))
      [] f = "projects" -> Len(h) + Len(ListOf(P, "education"))
                                  + Len(ListOf(P, "experience"))
InternDoc(P, h) ==
    [k \in DOMAIN P |->
        IF k \in ListFields
        THEN [j \in 1..Len(P[k]) |-> InternBase(P, h, k) + j]
        ELSE P[k]]

\* The click on "Upload & Parse": the button is disabled while loading;
\* without a file the handler returns at once.
handleUpload ==
    /\ ~loading
    /\ IF file = None
       THEN /\ last' = [op |-> "handleUpload", sent |-> FALSE]
            /\ UNCHANGED <<file, parsedData, pdfUrl, loading, error, heap,
                           pending, nSteps>>
       ELSE /\ nSteps < MaxSteps
            /\ loading' = TRUE
            /\ error' = None
            /\ pending' = Append(pending, [id |-> nSteps + 1, kind |-> "upload"])
            /\ nSteps' = nSteps + 1
            /\ last' = [op |-> "handleUpload", sent |-> TRUE]
            /\ UNCHANGED <<file, parsedData, pdfUrl, heap>>

\* catch (err): the message of an Error, a fixed text for anything else.
CatchMessage(err) ==
    IF err.isError THEN err.message ELSE <<"An unknown error occurred.">>

\* (mutant) the same without the check of res.ok.
UploadOutcomeNoStatusCheck(ans) ==
    IF ans.t = "reject" THEN [t |-> "throw", err |-> ans.err]
    ELSE IF ans.json = None THEN [t |-> "throw", err |-> SyntaxError]
    ELSE IF ans.json[1].parsed # None
    THEN [t |-> "parsed", data |-> ans.json[1]]
    ELSE [t |-> "noparsed"]

\* What the try block of handleUpload does with the answer: "throw" with the
\* error thrown, "parsed" with the data, or "noparsed".
UploadOutcome(ans) ==
    IF ans.t = "reject" THEN [t |-> "throw", err |-> ans.err]
    ELSE IF ~ans.ok
    THEN [t |-> "throw",
          err |-> [isError |-> TRUE,
                   message |-> <<"Upload failed: ">> \o ans.statusText]]
    ELSE IF ans.json = None THEN [t |-> "throw", err |-> SyntaxError]
    ELSE IF ans.json[1].parsed # None
    THEN [t |-> "parsed", data |-> ans.json[1]]
    ELSE [t |-> "noparsed"]

\* (mutant) the url with the token the save handler adds.
UploadedPdfUrlBusted(data) ==
    IF data.pdf_url = None THEN None ELSE Some(CacheBust(data.pdf_url[1], 0))

\* setPdfUrl(data.pdf_url): the url as the backend gave it.
UploadedPdfUrl(data) == data.pdf_url

\* (mutant) setLoading(false) as the last statement of the try block: not
\* reached when something throws.
LoadingAfterNoFinally(out) == out.t = "throw"

\* finally { setLoading(false); }: the flag after the answer has been
\* handled, whatever the outcome.
LoadingAfter(out) == FALSE

\* The rest of handleUpload, run when its fetch settles.
handleUploadResume ==
    \E k \in 1..Len(pending), ans \in UploadAnswers :
        /\ pending[k].kind = "upload"
        /\ pending' = Settle(pending, k)
        /\ LET out == UploadOutcome(ans) IN
             CASE out.t = "parsed" ->
                    /\ parsedData' = Some(InternDoc(out.data.parsed[1], heap))
                    /\ heap' = InternHeap(out.data.parsed[1], heap)
                    /\ pdfUrl' = UploadedPdfUrl(out.data)
                    /\ error' = error
               [] out.t = "noparsed" ->
                    /\ error' = Some(<<"Parsing failed. Please try another resume.">>)
                    /\ UNCHANGED <<parsedData, heap, pdfUrl>>
               [] out.t = "throw" ->
                    /\ error' = Some(CatchMessage(out.err))
                    /\ UNCHANGED <<parsedData, heap, pdfUrl>>
        /\ loading' = LoadingAfter(UploadOutcome(ans))
        /\ last' = [op |-> "handleUploadResume", id |-> pending[k].id, ans |-> ans]
        /\ UNCHANGED <<file, nSteps>>

\* ---- edits
\* (mutant) the updater without the spread of prev.
handleFieldChangeNoSpread(prev, field, value) == Some(Assign(<< >>, field, value))

\* The updater of handleFieldChange:
\* prev ? { ...prev, [field]: value } : { [field]: value }.
handleFieldChange(prev, field, value) ==
    IF prev # None THEN Some(Assign(prev[1], field, value))
    ELSE Some(Assign(<< >>, field, value))

\* (mutant) a form rendered whether or not there is a document.
FormRenderedAlways(pd) == TRUE

\* {parsedData ? (<the form>) : (<a placeholder>)}
FormRendered(pd) == pd # None

\* The form is rendered, and so its handlers can run, only with a document.
CanEdit == FormRendered(parsedData) /\ nSteps < MaxSteps

\* What every edit leaves alone.
EditFrame == UNCHANGED <<file, pdfUrl, loading, error, pending>>

\* onChange of a plain text input (full_name, title, ..., summary).
textOnChange ==
    \E field \in TextFields, text \in Texts :
        /\ CanEdit
        /\ parsedData' = handleFieldChange(parsedData, field, text)
        /\ heap' = heap
        /\ nSteps' = nSteps + 1
        /\ last' = [op |-> "textOnChange", field |-> field, text |-> text]
        /\ EditFrame

\* onChange of technical_skills, certifications, languages:
\* handleFieldChange(field, e.target.value.split(",")).
bulkOnChangeTo(field, text) ==
    /\ CanEdit
    /\ parsedData' = handleFieldChange(parsedData, field, Split(text, COMMA))
    /\ heap' = heap
    /\ nSteps' = nSteps + 1
    /\ last' = [op |-> "bulkOnChange", field |-> field, text |-> text]
    /\ EditFrame

bulkOnChange == \E field \in BulkFields, text \in BulkTexts : bulkOnChangeTo(field, text)

\* The value an entry input stores: the text, or its lines for the
\* description of an experience or a project.
EntryValue(field, sub, text) ==
    IF sub = "description" /\ field \in {"experience", "projects"}
    THEN Split(text, NL)
    ELSE text

\* (mutant) the value written to every entry of the list.
WriteEntryAll(h, updated, i, sub, value) ==
    [a \in 1..Len(h) |->
        IF \E j \in 1..Len(updated) : updated[j] = a
        THEN Assign(h[a], sub, value) ELSE h[a]]

\* updated[i].sub = value: the entry object at index i (from 0) of the copied
\* list is written in place.
WriteEntry(h, updated, i, sub, value) ==
    [h EXCEPT ![updated[i + 1]] = Assign(h[updated[i + 1]], sub, value)]

\* onChange of an input of entry i of a list: const updated = [...list];
\* updated[i].sub = value; handleFieldChange(field, updated).
entryOnChange(field, subs) ==
    /\ CanEdit
    /\ field \in DOMAIN parsedData[1]
    /\ \E i \in 0..(Len(parsedData[1][field]) - 1), sub \in subs, text \in Texts :
          LET updated == parsedData[1][field] IN
            /\ heap' = WriteEntry(heap, updated, i, sub, EntryValue(field, sub, text))
            /\ parsedData' = handleFieldChange(parsedData, field, updated)
            /\ last' = [op |-> "entryOnChange", field |-> field, i |-> i,
                        sub |-> sub, text |-> text]
    /\ nSteps' = nSteps + 1
    /\ EditFrame

educationOnChange == entryOnChange("education", EducationSubfields)
experienceOnChange == entryOnChange("experience", ExperienceSubfields)
projectsOnChange == entryOnChange("projects", ProjectSubfields)

\* The entries the add handlers push.
DefaultEducation ==
    [degree |-> << >>, institution |-> << >>, start_year |-> << >>,
     end_year |-> << >>, description |-> << >>]
DefaultExperienceNoBullet ==
    [company |-> << >>, title |-> << >>, start_year |-> << >>,
     end_year |-> << >>, description |-> << >>]
DefaultExperience ==
    [company |-> << >>, title |-> << >>, start_year |-> << >>,
     end_year |-> << >>, description |-> << << >> >>]
DefaultProject ==
    [project_name |-> << >>, start_year |-> << >>, end_year |-> << >>,
     description |-> << << >> >>]

\* parsedData?.field ? [...parsedData.field] : []  (an array is truthy).
CopyOrEmpty(pd, field) ==
    IF pd # None /\ field \in DOMAIN pd[1] THEN pd[1][field] ELSE << >>

\* addEducation / addExperience / addProject: push a fresh default entry on a
\* copy of the list and install it.
addEntry(field, entry) ==
    /\ CanEdit
    /\ heap' = Append(heap, entry)
    /\ parsedData' = handleFieldChange(parsedData, field,
                         Append(CopyOrEmpty(parsedData, field), Len(heap) + 1))
    /\ nSteps' = nSteps + 1
    /\ last' = [op |-> "addEntry", field |-> field]
    /\ EditFrame

addEducation == addEntry("education", DefaultEducation)
addExperience == addEntry("experience", DefaultExperience)
addProject == addEntry("projects", DefaultProject)

\* removeEducation / removeExperience / removeProject (i): the Remove button
\* of the rendered entry i.
removeEntry(field) ==
    /\ CanEdit
    /\ field \in DOMAIN parsedData[1]
    /\ \E i \in 0..(Len(parsedData[1][field]) - 1) :
          /\ parsedData' = handleFieldChange(parsedData, field,
                               SpliceOne(CopyOrEmpty(parsedData, field), i))
          /\ last' = [op |-> "removeEntry", field |-> field, i |-> i]
    /\ heap' = heap
    /\ nSteps' = nSteps + 1
    /\ EditFrame

removeEducation == removeEntry("education")
removeExperience == removeEntry("experience")
removeProject == removeEntry("projects")

\* ---- save
\* The fields the form renders and edits.
RenderedFields ==
    {"full_name", "title", "email", "phone", "location", "summary",
     "education", "experience", "projects",
     "technical_skills", "certifications", "languages"}

\* (mutant) a body built from the rendered fields only.
SaveBodyRenderedOnly(pd, h) ==
    [parsed |-> [k \in (DOMAIN pd) \cap RenderedFields |-> DerefDoc(pd, h)[k]]]

\* JSON.stringify({ parsed: parsedData }): every key of the document, the
\* entry objects by value.
SaveBody(pd, h) == [parsed |-> DerefDoc(pd, h)]

\* (mutant) the click without the check of parsedData.
saveOnClickNoGuard ==
    /\ nSteps < MaxSteps
    /\ pending' = Append(pending,
           [id |-> nSteps + 1, kind |-> "save",
            body |-> IF parsedData = None THEN [parsed |-> None]
                     ELSE SaveBody(parsedData[1], heap)])
    /\ nSteps' = nSteps + 1
    /\ last' = [op |-> "saveOnClick", sent |-> TRUE]
    /\ UNCHANGED <<file, parsedData, pdfUrl, loading, error, heap>>

\* The click on "Save & Update Preview": nothing without a document;
\* otherwise the document is serialised and posted.
saveOnClick ==
    IF parsedData = None
    THEN /\ last' = [op |-> "saveOnClick", sent |-> FALSE]
         /\ UNCHANGED <<file, parsedData, pdfUrl, loading, error, heap, pending, nSteps>>
    ELSE /\ nSteps < MaxSteps
         /\ pending' = Append(pending,
                [id |-> nSteps + 1, kind |-> "save",
                 body |-> SaveBody(parsedData[1], heap)])
         /\ nSteps' = nSteps + 1
         /\ last' = [op |-> "saveOnClick", sent |-> TRUE]
         /\ UNCHANGED <<file, parsedData, pdfUrl, loading, error, heap>>

\* What the try block of the save handler does with the answer: the
\* pdf_url to show, or None when fetch or res.json() throws or the body
\* names none.  The status of the response is not looked at.
SaveOutcome(ans) ==
    IF ans.t = "reject" THEN None
    ELSE IF ans.json = None THEN None
    ELSE IF TruthyStr(ans.json[1].pdf_url) THEN ans.json[1].pdf_url
    ELSE None

\* (mutant) setParsedData(data.parsed) on an answer that names a pdf_url
\* and, as /update/ answers do, no `parsed`.
SavedDocumentFromAnswer(pd, ans) == IF SaveOutcome(ans) # None THEN None ELSE pd

\* The document after a save has been answered: the handler has no
\* setParsedData, whatever the answer.
SavedDocument(pd, ans) == pd

\* (mutant) the answer to a request is dropped when anything was done
\* since the request was sent.
PreviewAfterSaveUnlessStale(cur, req, ans, t) ==
    IF SaveOutcome(ans) # None /\ req.id = nSteps
    THEN Some(CacheBust(SaveOutcome(ans)[1], t))
    ELSE cur

\* if (data.pdf_url) setPdfUrl(data.pdf_url + "?t=" + new Date().getTime()):
\* the preview reference after the answer to request req has been handled;
\* which request it answers is not looked at.
PreviewAfterSave(cur, req, ans, t) ==
    IF SaveOutcome(ans) # None
    THEN Some(CacheBust(SaveOutcome(ans)[1], t))
    ELSE cur

\* The rest of the save handler, run when its fetch settles.
saveOnClickResume ==
    \E k \in 1..Len(pending), ans \in SaveAnswers, t \in Times :
        /\ pending[k].kind = "save"
        /\ pending' = Settle(pending, k)
        /\ pdfUrl' = PreviewAfterSave(pdfUrl, pending[k], ans, t)
        /\ parsedData' = SavedDocument(parsedData, ans)
        /\ last' = [op |-> "saveOnClickResume", id |-> pending[k].id, ans |-> ans]
        /\ UNCHANGED <<file, loading, error, heap, nSteps>>

Next ==
    \/ handleFileChange
    \/ handleUpload
    \/ handleUploadResume
    \/ textOnChange
    \/ bulkOnChange
    \/ educationOnChange
    \/ experienceOnChange
    \/ projectsOnChange
    \/ addEducation
    \/ addExperience
    \/ addProject
    \/ removeEducation
    \/ removeExperience
    \/ removeProject
    \/ saveOnClick
    \/ saveOnClickResume

Spec == Init /\ [][Next]_vars

\* ------------------------------------------------- handleFieldChange alone
\* The arguments handleFieldChange is called with: a text for a text field,
\* a list of texts for a comma-separated field.
TextFieldInputs ==
    { [op |-> "input", field |-> f, value |-> v] :
        f \in {"full_name", "title", "summary"}, v \in TypedTexts }
ListFieldInputs ==
    { [op |-> "input", field |-> f, value |-> Split(t, COMMA)] :
        f \in {"technical_skills", "languages"}, t \in TypedTexts }

\* The page before any upload, or right after the upload of a document,
\* with the call of handleFieldChange about to be made.
InitField ==
    /\ \E o \in {None} \cup { Some(P) : P \in ParsedDocs } :
          /\ parsedData = IF o = None THEN None ELSE Some(InternDoc(o[1], << >>))
          /\ heap = IF o = None THEN << >> ELSE InternHeap(o[1], << >>)
          /\ file = IF o = None THEN None ELSE Some("cv.pdf")
          /\ pdfUrl = IF o = None THEN None ELSE Some(<<"http://x/r1.pdf">>)
          /\ nSteps = IF o = None THEN 0 ELSE 1
    /\ loading = FALSE
    /\ error = None
    /\ pending = << >>
    /\ (last \in TextFieldInputs \/ last \in ListFieldInputs)

\* handleFieldChange(field, value): setParsedData with the updater.
callHandleFieldChange ==
    /\ last.op = "input"
    /\ parsedData' = handleFieldChange(parsedData, last.field, last.value)
    /\ last' = [op |-> "handleFieldChange", field |-> last.field,
                value |-> last.value, prev |-> parsedData]
    /\ UNCHANGED <<file, pdfUrl, loading, error, heap, pending, nSteps>>

NextField == callHandleFieldChange

SpecField == InitField /\ [][NextField]_vars

\* ------------------------------------- the comma-separated textareas alone
AllBulkFields == {"technical_skills", "languages"}

\* The lists the backend returns for such a field: up to two elements,
\* which may be empty or hold a comma.
BulkElems == TextsUpTo(MaxTextLen - 1)
BulkLists == UNION { [1..n -> BulkElems] : n \in 0..2 }

\* value={parsedData.technical_skills?.join(", ") || ""}: what the
\* textarea shows for the field of document pd.
BulkDisplay(pd, field) ==
    IF field \in DOMAIN pd THEN Join(pd[field], <<COMMA, " ">>) ELSE << >>

\* The page right after the upload of a document with a list of skills.
InitBulk ==
    /\ \E L \in BulkLists :
          parsedData = Some([full_name |-> <<"Joe">>, technical_skills |-> L])
    /\ heap = << >>
    /\ file = Some("cv.pdf")
    /\ pdfUrl = Some(<<"http://x/r1.pdf">>)
    /\ loading = FALSE
    /\ error = None
    /\ pending = << >>
    /\ nSteps = 1
    /\ last = [op |-> "handleUploadResume"]

\* The user replaces the content of a textarea by a text.
bulkTyped ==
    \E field \in AllBulkFields, text \in TypedTexts \cup BulkTexts :
        bulkOnChangeTo(field, text)

\* onChange fires with the text the textarea shows (the user types a
\* character and deletes it, or pastes the content over itself).
bulkRetyped ==
    \E field \in AllBulkFields :
        bulkOnChangeTo(field, BulkDisplay(parsedData[1], field))

NextBulk ==
    \/ bulkTyped
    \/ bulkRetyped

SpecBulk == InitBulk /\ [][NextBulk]_vars

\* ================================================================ claims
EditOps == {"textOnChange", "bulkOnChange", "entryOnChange", "addEntry", "removeEntry"}

\* The document values before and after a step.
OldDoc == DerefDoc(parsedData[1], heap)
NewDoc == DerefDoc(parsedData'[1], heap')

\* A list field of a document value, empty when the field is absent.
ListIn(doc, f) == IF f \in DOMAIN doc THEN doc[f] ELSE << >>

\* Every field of the new document other than f is a field of the old one
\* with the same value, and no field is lost.
OnlyFieldChanged(f) ==
    /\ DOMAIN NewDoc = (DOMAIN OldDoc) \cup {f}
    /\ \A k \in (DOMAIN OldDoc) \ {f} : NewDoc[k] = OldDoc[k]

\* ---- C1
\* C1: an edit never mutates the previous document in place: the value the
\* document that was current before the edit denotes (its lists and their
\* entries included) is the same after the edit as before it.
C1_PreviousDocumentNotMutated ==
    [][(last'.op \in EditOps /\ parsedData # None)
          => DerefDoc(parsedData[1], heap') = DerefDoc(parsedData[1], heap)]_vars

\* ---- C2
\* The answers for which the claim calls an upload failed: a network error,
\* a non-success status, a body that is no JSON, a body without `parsed`.
UploadAnswerFails(ans) ==
    \/ ans.t = "reject"
    \/ ans.t = "response" /\ ~ans.ok
    \/ ans.t = "response" /\ ans.ok /\ ans.json = None
    \/ ans.t = "response" /\ ans.ok /\ ans.json # None /\ ans.json[1].parsed = None

\* C2: a failed upload leaves the document (and the objects it reaches) and
\* the preview reference as they were and sets a non-empty error message.
C2_FailedUploadKeepsDocument ==
    [][(last'.op = "handleUploadResume" /\ UploadAnswerFails(last'.ans))
          => /\ parsedData' = parsedData
             /\ heap' = heap
             /\ pdfUrl' = pdfUrl
             /\ error' # None
             /\ Len(error'[1]) > 0]_vars

\* An upload answered with HTTP 500 while a document was loaded.
C2_Witness ==
    /\ last.op = "handleUploadResume"
    /\ last.ans.t = "response"
    /\ ~last.ans.ok
    /\ parsedData # None
    /\ error # None

\* ---- C3
\* C3: an upload answered {parsed: P, pdf_url: U} with a success status makes
\* the document P and the preview reference U as given, sets no error and
\* ends with loading false.
C3_SuccessfulUploadInstalls ==
    [][(/\ last'.op = "handleUploadResume"
        /\ ~UploadAnswerFails(last'.ans)
        /\ last'.ans.json[1].pdf_url # None)
          => /\ parsedData' # None
             /\ NewDoc = last'.ans.json[1].parsed[1]
             /\ pdfUrl' = last'.ans.json[1].pdf_url
             /\ error' = error
             /\ error' = None
             /\ loading' = FALSE]_vars

\* The scenario of the specification: Jane Doe, no education, r1.pdf.
C3_Witness ==
    /\ last.op = "handleUploadResume"
    /\ parsedData # None
    /\ DerefDoc(parsedData[1], heap)
         = [full_name |-> <<"Jane Doe">>, education |-> << >>]
    /\ pdfUrl = Some(<<"http://x/r1.pdf">>)
    /\ ~loading

\* ---- C4
\* C4: sending a save and receiving its answer, whatever it is, leaves the
\* document and the objects it reaches as they were.
C4_SaveKeepsDocument ==
    [][last'.op \in {"saveOnClick", "saveOnClickResume"}
          => /\ parsedData' = parsedData
             /\ heap' = heap]_vars

\* A save of an edited document was answered with a pdf_url.
C4_Witness ==
    /\ last.op = "saveOnClickResume"
    /\ SaveOutcome(last.ans) # None
    /\ parsedData # None
    /\ "summary" \in DOMAIN parsedData[1]
    /\ pdfUrl # None

\* ---- C5
\* The answers for which the claim calls a save failed.
SaveAnswerFails(ans) == ans.t = "reject" \/ (ans.t = "response" /\ ~ans.ok)

\* C5: a failed save (network failure or non-success status) leaves the
\* document and the preview reference as they were.
C5_FailedSaveKeepsState ==
    [][(last'.op = "saveOnClickResume" /\ SaveAnswerFails(last'.ans))
          => /\ parsedData' = parsedData
             /\ heap' = heap
             /\ pdfUrl' = pdfUrl]_vars

\* ---- C6
\* C6: at most one request, upload or save, is in flight.
C6_AtMostOneInFlight == Len(pending) <= 1

\* ---- C7
\* A handler the user starts that gets past its first check.
UserAction(l) ==
    \/ l.op \in EditOps
    \/ l.op \in {"handleUpload", "saveOnClick"} /\ l.sent

\* C7: with an error message attached, the next user action clears it.
C7_NextActionClearsError ==
    [][(error # None /\ UserAction(last')) => error' = None]_vars

\* ---- C8
\* The value the input of subfield sub of an entry of list f stores for
\* the typed text: the text, or for the bullet list of an experience or a
\* project the lines of the text.
IsEntryValue(f, sub, text, v) ==
    IF sub = "description" /\ f # "education"
    THEN /\ Join(v, <<NL>>) = text
         /\ \A j \in 1..Len(v) : \A m \in 1..Len(v[j]) : v[j][m] # NL
    ELSE v = text

\* C8: updating subfield s of entry i of list f gives a document in which
\* D[f][i][s] is the new value and every other subfield of entry i, every
\* other entry of f and every other field has the value it had.
C8_UpdateEntryFieldFrame ==
    [][last'.op = "entryOnChange"
          => LET f == last'.field
                 i == last'.i + 1
                 old == OldDoc[f]
                 new == NewDoc[f]
             IN /\ OnlyFieldChanged(f)
                /\ Len(new) = Len(old)
                /\ \A j \in (1..Len(old)) \ {i} : new[j] = old[j]
                /\ DOMAIN new[i] = (DOMAIN old[i]) \cup {last'.sub}
                /\ \A k \in (DOMAIN old[i]) \ {last'.sub} : new[i][k] = old[i][k]
                /\ IsEntryValue(f, last'.sub, last'.text, new[i][last'.sub])]_vars

\* The bullets of the second of two projects were retyped as two lines.
C8_Witness ==
    /\ last.op = "entryOnChange"
    /\ last.field = "projects"
    /\ last.i = 1
    /\ last.sub = "description"
    /\ Len(parsedData[1].projects) = 2
    /\ heap[parsedData[1].projects[2]].description = << <<"c">>, <<"d">> >>
    /\ heap[parsedData[1].projects[1]].description = << <<"wrote z">> >>

\* ---- C9
\* C9: removing index i (0 <= i < n) of list f gives a list of length n-1:
\* the entries before i stay where they are, those after i move down by
\* one, the same objects with the same values; other fields are unchanged.
C9_RemoveAtShifts ==
    [][last'.op = "removeEntry"
          => LET f == last'.field
                 i == last'.i
                 old == OldDoc[f]
                 new == NewDoc[f]
                 oldAt == parsedData[1][f]
                 newAt == parsedData'[1][f]
             IN /\ i >= 0 /\ i < Len(old)
                /\ OnlyFieldChanged(f)
                /\ Len(new) = Len(old) - 1
                /\ \A j \in 1..Len(new) :
                      /\ new[j] = old[IF j <= i THEN j ELSE j + 1]
                      /\ newAt[j] = oldAt[IF j <= i THEN j ELSE j + 1]]_vars

\* The middle one of three projects was removed: the first stays, the
\* third (one just added) is now the second.
C9_Witness ==
    /\ last.op = "removeEntry"
    /\ last.field = "projects"
    /\ last.i = 1
    /\ Len(parsedData[1].projects) = 2
    /\ heap[parsedData[1].projects[1]].project_name = <<"p1">>
    /\ heap[parsedData[1].projects[2]].project_name = << >>

\* ---- C10
SubfieldsOf(f) ==
    CASE f = "education" -> EducationSubfields
      [] f = "experience" -> ExperienceSubfields
      [] f = "projects" -> ProjectSubfields

\* An entry whose text subfields are "" and whose bullet list is [""].
IsDefaultEntry(f, e) ==
    /\ DOMAIN e = SubfieldsOf(f)
    /\ \A k \in DOMAIN e :
          e[k] = IF k = "description" /\ f # "education" THEN << << >> >> ELSE << >>

\* C10: append on list f gives the old list (empty when f was absent)
\* followed by one default entry; the entries there keep order and value.
C10_AppendDefault ==
    [][last'.op = "addEntry"
          => LET f == last'.field
                 old == ListIn(OldDoc, f)
                 new == NewDoc[f]
             IN /\ OnlyFieldChanged(f)
                /\ Len(new) = Len(old) + 1
                /\ \A j \in 1..Len(old) : new[j] = old[j]
                /\ IsDefaultEntry(f, new[Len(new)])]_vars

\* "+ Add Experience" on a document without the experience field.
C10_Witness ==
    /\ last.op = "addEntry"
    /\ last.field = "experience"
    /\ heap = <<DefaultExperience>>
    /\ DerefDoc(parsedData[1], heap)
         = [full_name |-> <<"Jane Doe">>, education |-> << >>,
            experience |-> << [company |-> << >>, title |-> << >>,
                               start_year |-> << >>, end_year |-> << >>,
                               description |-> << << >> >>] >>]

\* ---- C11
\* C11: setField(D, f, v), with an absent D taken as the empty mapping,
\* gives a document equal to D except that f maps to v, and the value D
\* denotes is the same after the call as before.
C11_SetFieldFrame ==
    [][last'.op = "handleFieldChange"
          => LET D == IF parsedData = None THEN << >> ELSE OldDoc
             IN /\ parsedData' # None
                /\ DOMAIN NewDoc = (DOMAIN D) \cup {last'.field}
                /\ NewDoc[last'.field] = last'.value
                /\ \A k \in (DOMAIN D) \ {last'.field} : NewDoc[k] = D[k]
                /\ parsedData # None
                     => DerefDoc(parsedData[1], heap') = OldDoc]_vars

\* summary set on a document that had none, every other field kept.
C11_Witness ==
    /\ last.op = "handleFieldChange"
    /\ last.field = "summary"
    /\ last.value = <<"a", " ">>
    /\ last.prev # None
    /\ DOMAIN parsedData[1] = {"full_name", "education", "summary"}
    /\ parsedData[1].full_name = <<"Jane Doe">>
    /\ parsedData[1].summary = <<"a", " ">>

\* Number of occurrences of atom c in string str.
CountOf(str, c) == Cardinality({k \in 1..Len(str) : str[k] = c})

\* ---- C12
\* C12: editing a comma-separated field to text T sets the field to T split
\* at every comma, the pieces untrimmed: the list has (commas of T) + 1
\* elements, no element holds a comma, and the elements joined by a comma
\* spell T again; the other fields are kept.
C12_BulkEditSplitsAtEveryComma ==
    [][last'.op = "bulkOnChange"
          => LET v == NewDoc[last'.field]
                 T == last'.text
             IN /\ Len(v) = CountOf(T, COMMA) + 1
                /\ \A j \in 1..Len(v) : CountOf(v[j], COMMA) = 0
                /\ Join(v, <<COMMA>>) = T
                /\ OnlyFieldChanged(last'.field)]_vars

\* "Go, Rust,C++" has become ["Go", " Rust", "C++"].
C12_Witness ==
    /\ last.op = "bulkOnChange" /\ last.field = "technical_skills"
    /\ last.text = <<"Go", COMMA, " Rust", COMMA, "C++">>
    /\ parsedData[1].technical_skills = << <<"Go">>, <<" Rust">>, <<"C++">> >>

\* ---- C18
\* C18: for every list whose elements hold no comma, reparsing the text the
\* textarea displays for it (the list joined with ", ", split at ",")
\* yields the list again.
C18_RoundTripKeepsCommaFreeLists ==
    [][(/\ last'.op = "bulkOnChange"
        /\ last'.field \in DOMAIN parsedData[1]
        /\ last'.text = BulkDisplay(parsedData[1], last'.field)
        /\ \A j \in 1..Len(parsedData[1][last'.field]) :
              CountOf(parsedData[1][last'.field][j], COMMA) = 0)
          => parsedData'[1][last'.field] = parsedData[1][last'.field]]_vars

\* ---- C13
\* C13: the keys of the document the form does not render keep their values
\* through every edit (set field, add, remove, entry field), and the body
\* of a save request carries them with the values they have in the
\* document.
C13_UnknownFieldsPreserved ==
    [][/\ last'.op \in EditOps
            => \A k \in (DOMAIN OldDoc) \ RenderedFields :
                   k \in DOMAIN NewDoc /\ NewDoc[k] = OldDoc[k]
       /\ (last'.op = "saveOnClick" /\ last'.sent)
            => LET sent == pending'[Len(pending')].body.parsed
               IN \A k \in (DOMAIN OldDoc) \ RenderedFields :
                      k \in DOMAIN sent /\ sent[k] = OldDoc[k]]_vars

\* A save sent after an edit of the name: the body has the new name and
\* the unrendered key "hobbies".
C13_Witness ==
    /\ last.op = "saveOnClick" /\ last.sent
    /\ LET sent == pending[Len(pending)].body.parsed
       IN /\ sent.full_name = <<"c", NL, "d">>
          /\ "hobbies" \in DOMAIN sent
          /\ sent.hobbies = << <<"chess">> >>

\* ---- C14
\* The preview reference was produced by a save: it carries the "?t=" token.
SetBySave(url) == url # None /\ \E k \in 1..Len(url[1]) : url[1][k] = "?t="

\* C14: a successful save sets the preview reference to the returned
\* pdf_url followed by "?t=" and a timestamp, and the reference it sets
\* differs from the one the previous successful save had set.
C14_SuccessiveSavesDiffer ==
    [][(/\ last'.op = "saveOnClickResume"
        /\ SaveOutcome(last'.ans) # None
        /\ last'.ans.ok)
          => /\ \E t \in Times :
                   pdfUrl' = Some(CacheBust(SaveOutcome(last'.ans)[1], t))
             /\ SetBySave(pdfUrl) => pdfUrl' # pdfUrl]_vars

\* ---- C15
\* C15: after a failed upload and after a failed save (network failure or
\* non-success status; for an upload also a body without `parsed` or one
\* that is not JSON) the error message is set.
C15_FailedRequestSetsError ==
    [][/\ (last'.op = "handleUploadResume" /\ UploadAnswerFails(last'.ans))
            => error' # None
       /\ (last'.op = "saveOnClickResume" /\ SaveAnswerFails(last'.ans))
            => error' # None]_vars

\* ---- C16
\* C16: the document goes from absent to present only at the arrival of a
\* successful parse response (so no edit and no save creates one), and a
\* present document never becomes absent.
C16_DocumentOnlyFromParse ==
    [][/\ (parsedData = None /\ parsedData' # None)
            => /\ last'.op = "handleUploadResume"
               /\ ~UploadAnswerFails(last'.ans)
       /\ parsedData # None => parsedData' # None]_vars

\* The first upload has been answered with a document; before it, every
\* step left the document absent.
C16_Witness ==
    /\ last.op = "handleUploadResume" /\ last.id = 1
    /\ ~UploadAnswerFails(last.ans)
    /\ parsedData # None /\ nSteps = 1

\* ---- C17
ResumeOps == {"handleUploadResume", "saveOnClickResume"}

\* The previous step was the arrival of the answer to a request issued
\* after the one whose answer arrives now.
Overtaken == last.op \in ResumeOps /\ last.id > last'.id

\* C17: an answer is applied when it arrives, whatever was issued or
\* answered since its request was sent: a successful save answer that
\* arrives after the answer to a later request sets the preview reference,
\* so does a successful upload answer that arrives after the answer to a
\* later save, and a successful upload answer that arrives after an edit
\* replaces the edited document by the parsed one.
C17_ArrivalOrderDecides ==
    [][/\ (/\ last'.op = "saveOnClickResume"
           /\ SaveOutcome(last'.ans) # None
           /\ Overtaken)
            => \E t \in Times :
                  pdfUrl' = Some(CacheBust(SaveOutcome(last'.ans)[1], t))
       /\ (/\ last'.op = "handleUploadResume"
           /\ ~UploadAnswerFails(last'.ans)
           /\ Overtaken)
            => pdfUrl' = last'.ans.json[1].pdf_url
       /\ (/\ last'.op = "handleUploadResume"
           /\ ~UploadAnswerFails(last'.ans)
           /\ last.op \in EditOps)
            => NewDoc = last'.ans.json[1].parsed[1]]_vars

\* Save 2 was sent before upload 3 and answered after it: the document is
\* the one upload 3 brought, the preview reference the one save 2 brought.
C17_Witness ==
    /\ last.op = "saveOnClickResume" /\ last.id = 2
    /\ SaveOutcome(last.ans) # None
    /\ nSteps = 3 /\ pending = << >> /\ error = None
    /\ SetBySave(pdfUrl)
    /\ parsedData # None
    /\ DerefDoc(parsedData[1], heap) \in ParsedDocs
    /\ parsedData[1].full_name = <<"Joe">>
    /\ Len(heap) = 4

\* ---- C19
\* An upload request is awaiting its answer.
UploadInFlight == \E j \in 1..Len(pending) : pending[j].kind = "upload"

\* C19: the loading flag is true exactly while an upload request is in
\* flight; the arrival of the answer to an upload, whatever the answer,
\* leaves the flag false; a click on Upload with a file starts one request
\* and raises the flag; a click with no file starts no request and changes
\* nothing of the page.
C19_LoadingWhileUploadInFlight ==
    /\ [](loading <=> UploadInFlight)
    /\ [][/\ last'.op = "handleUploadResume" => ~loading'
          /\ (last'.op = "handleUpload" /\ last'.sent)
               => /\ loading'
                  /\ Len(pending') = Len(pending) + 1
                  /\ pending'[Len(pending')].kind = "upload"
          /\ (last'.op = "handleUpload" /\ ~last'.sent)
               => UNCHANGED <<file, parsedData, pdfUrl, loading, error,
                              heap, pending>>]_vars

\* An upload answered 200 with a body that is not JSON: the flag is false
\* again and the error is shown.
C19_Witness ==
    /\ last.op = "handleUploadResume"
    /\ last.ans = Http(TRUE, <<"OK">>, None)
    /\ ~loading /\ ~UploadInFlight
    /\ error = Some(SyntaxError.message)

\* ---- C20
\* C20: whenever a preview reference is present, a document is present.
C20_PreviewImpliesDocument == pdfUrl # None => parsedData # None

\* The preview reference set by the answer to the first save.
C20_Witness ==
    /\ last.op = "saveOnClickResume" /\ last.id = 2 /\ nSteps = 2
    /\ SetBySave(pdfUrl) /\ parsedData # None /\ pending = << >>

====
